---- MODULE Spec2Model ----
(***************************************************************************)
(* A model of the recombination engine of OllamaToGGUF.py:                 *)
(* get_model_size, recombine_model (metadata checks, strategy selection,   *)
(* the in-memory path) and recombine_model_chunked (the streamed path).    *)
(*                                                                         *)
(* Byte strings are kept run-length encoded: a content is a sequence of    *)
(* runs [b |-> byte, n |-> count] in which neighbouring runs differ in b   *)
(* and every n is positive.  Two contents are the same byte string exactly *)
(* when they are the same sequence of runs, so sizes around the 1 GiB      *)
(* threshold of the source can be handled with their real values.          *)
(*                                                                         *)
(* Layer descriptors are taken to be well formed (a mediaType and a digest *)
(* of the form <algorithm>:<hex>), and the artifact name, which depends on *)
(* the unchanged manifest only, is one fixed path.                         *)
(***************************************************************************)
EXTENDS Integers, Sequences, FiniteSets, TLC

(***************************************************************************)
(* Byte strings                                                            *)
(***************************************************************************)
Run(b, n) == [b |-> b, n |-> n]

Rep(b, n) == IF n = 0 THEN << >> ELSE << Run(b, n) >>

\* bytes.__add__ / appending to a file: c followed by d
Cat(c, d) ==
    IF c = << >> THEN d
    ELSE IF d = << >> THEN c
    ELSE IF c[Len(c)].b = d[1].b
         THEN SubSeq(c, 1, Len(c) - 1)
                \o << Run(d[1].b, c[Len(c)].n + d[1].n) >>
                \o Tail(d)
         ELSE c \o d

RECURSIVE Size(_)
\* len(content) / os.path.getsize of a file holding content
Size(c) == IF c = << >> THEN 0 ELSE c[1].n + Size(Tail(c))

RECURSIVE Take(_, _)
\* the first k bytes of c
Take(c, k) ==
    IF k = 0 \/ c = << >> THEN << >>
    ELSE IF c[1].n <= k THEN Cat(<< c[1] >>, Take(Tail(c), k - c[1].n))
    ELSE << Run(c[1].b, k) >>

RECURSIVE Drop(_, _)
\* c without its first k bytes
Drop(c, k) ==
    IF k = 0 \/ c = << >> THEN c
    ELSE IF c[1].n <= k THEN Drop(Tail(c), k - c[1].n)
    ELSE << Run(c[1].b, c[1].n - k) >> \o Tail(c)

\* file.read(size) of a file object positioned at offset
ReadAt(c, off, size) == Take(Drop(c, off), size)

RECURSIVE join(_)
\* b''.join(parts)
join(parts) == IF parts = << >> THEN << >> ELSE Cat(parts[1], join(Tail(parts)))

(***************************************************************************)
(* Program constants                                                       *)
(***************************************************************************)
large_file_threshold == 1 * 1024 * 1024 * 1024

default_chunk_size == 16 * 1024 * 1024

(***************************************************************************)
(* Bounds of the model                                                     *)
(***************************************************************************)
MaxLayers == 3

MaxRuns == 2

MaxFaults == 1

\* a read or write fault strikes within the first MaxFaultChunk chunks of a fragment
MaxFaultChunk == 2

\* a direct call of recombine_model_chunked copies at most MaxChunks chunks
MaxChunks == 70

\* the largest size a signed 32-bit integer holds; sizes are kept within it
MaxInt == (large_file_threshold - 1) + large_file_threshold

(***************************************************************************)
(* Inputs                                                                  *)
(***************************************************************************)
\* a path of the file system: a file with its content, or nothing
File(c) == [exists |-> TRUE, data |-> c]

Missing == [exists |-> FALSE, data |-> << >>]

Digests == {"a", "b"}

\* what the fragment store may hold under each digest
BlobChoices(d) ==
    IF d = "a"
    THEN {Missing, File(Rep(1, 1)), File(Rep(4, large_file_threshold - 1))}
    ELSE {Missing, File(<< >>), File(Rep(2, 1)), File(Cat(Rep(2, 1), Rep(3, 1)))}

Stores == {s \in [Digests -> UNION {BlobChoices(d) : d \in Digests}] :
              \A d \in Digests : s[d] \in BlobChoices(d)}

RECURSIVE SeqsUpTo(_, _)
SeqsUpTo(S, n) ==
    IF n = 0 THEN {<< >>}
    ELSE LET shorter == SeqsUpTo(S, n - 1)
         IN  shorter \cup {Append(s, x) : s \in {t \in shorter : Len(t) = n - 1}, x \in S}

LayerLists == SeqsUpTo(Digests, MaxLayers)

\* the manifest's config section: absent, without digest, or with one
ConfigSections == {[present |-> FALSE, digest |-> ""],
                   [present |-> TRUE, digest |-> ""],
                   [present |-> TRUE, digest |-> "sha256:cfg"]}

\* the manifest's layers entry: absent, or a list of digests
LayersEntries == {[present |-> FALSE, list |-> << >>]}
                    \cup {[present |-> TRUE, list |-> l] : l \in LayerLists}

\* the file_type entry of the configuration document
FileTypes == {[type |-> "absent", len |-> 0],
              [type |-> "str", len |-> 0],
              [type |-> "str", len |-> 4],
              [type |-> "int", len |-> 0],
              [type |-> "list", len |-> 1]}

ConfigBlobs == {[exists |-> FALSE, file_type |-> [type |-> "absent", len |-> 0]]}
                  \cup {[exists |-> TRUE, file_type |-> ft] : ft \in FileTypes}

ChunkSizes == {1, 2, default_chunk_size}

RECURSIVE SizeFits(_, _, _)
\* the fragments of layers add up to at most MaxInt bytes on top of acc
SizeFits(layers, store, acc) ==
    IF layers = << >> THEN TRUE
    ELSE LET sz == Size(store[layers[1]].data)
         IN  sz <= MaxInt - acc /\ SizeFits(Tail(layers), store, acc + sz)

VARIABLES
    manifest,        \* the parsed manifest: [config, layers]
    configBlob,      \* the configuration document config.digest points to
    blobs,           \* the fragment store: digest -> content or Missing
    outdir,          \* target_subdir exists
    artifact,        \* the file at final_output_filepath
    pc,              \* position of the running call, "idle" between calls
    entry,           \* the function the caller invoked
    strategy,        \* "none", "buffered" or "chunked"
    chunk_size,
    layer_index,     \* 1-based position of the layer loop
    layer_contents,
    errors_occurred,
    total_size,
    offset,          \* read position in the open fragment (bytes_processed)
    events,          \* per-fragment status lines written to stdout
    sized,           \* layers get_model_size has looked at in this call
    result,          \* "none", "true", "false" or "raised"
    cause,           \* why the call failed
    runs,            \* calls made so far
    faults,          \* I/O faults the environment has injected
    startArtifact,   \* artifact when the running call began
    startOutdir,     \* outdir when the running call began
    startFaults,     \* faults when the running call began
    prev             \* entry, strategy, result and artifact of the call before this one

vars == << manifest, configBlob, blobs, outdir, artifact, pc, entry, strategy,
           chunk_size, layer_index, layer_contents, errors_occurred, total_size,
           offset, events, sized, result, cause, runs, faults, startArtifact,
           startOutdir, startFaults, prev >>

inputs == << manifest, configBlob, blobs >>

locals == << strategy, chunk_size, layer_index, layer_contents, errors_occurred,
             total_size, offset, events, sized >>

history == << runs, startArtifact, startOutdir, startFaults, prev >>

NoPrev == [entry |-> "none", strategy |-> "none", result |-> "none",
           artifact |-> Missing]

\* file_type is mandatory, non-empty and a string (lines 85-90)
FileTypeInvalid(ft) ==
    \/ ft.type = "absent"            \* KeyError
    \/ ft.type = "int"               \* len() raises TypeError
    \/ ft.len = 0                    \* first assert
    \/ ft.type # "str"               \* second assert

\* the error the metadata checks of recombine_model raise, "none" when they pass
MetadataError(m, cb) ==
    IF ~m.config.present THEN "MissingConfig"
    ELSE IF m.config.digest = "" THEN "MissingDigest"
    ELSE IF ~cb.exists THEN "ConfigBlobUnreadable"
    ELSE IF FileTypeInvalid(cb.file_type) THEN "InvalidQuantizationType"
    ELSE IF ~m.layers.present \/ m.layers.list = << >> THEN "MissingLayers"
    ELSE "none"

Init ==
    /\ manifest \in [config : ConfigSections, layers : LayersEntries]
    /\ configBlob \in ConfigBlobs
    /\ blobs \in Stores
    /\ SizeFits(manifest.layers.list, blobs, 0)
    /\ outdir = FALSE
    /\ artifact = Missing
    /\ pc = "idle"
    /\ entry = "none"
    /\ strategy = "none"
    /\ chunk_size = default_chunk_size
    /\ layer_index = 1
    /\ layer_contents = << >>
    /\ errors_occurred = FALSE
    /\ total_size = 0
    /\ offset = 0
    /\ events = << >>
    /\ sized = 0
    /\ result = "none"
    /\ cause = "none"
    /\ runs = 0
    /\ faults = 0
    /\ startArtifact = Missing
    /\ startOutdir = FALSE
    /\ startFaults = 0
    /\ prev = NoPrev

(***************************************************************************)
(* Helpers of the operations                                               *)
(***************************************************************************)
Layers == manifest.layers.list

RECURSIVE get_model_size(_, _)
\* the sizes of the fragments that exist, a missing fragment counting zero
get_model_size(layers, store) ==
    IF layers = << >> THEN 0
    ELSE (IF store[layers[1]].exists THEN Size(store[layers[1]].data) ELSE 0)
            + get_model_size(Tail(layers), store)

\* a variant of UseChunked whose boundary belongs to the streamed side
UseChunkedInclusive(total) == total >= large_file_threshold

\* the test that sends a model to recombine_model_chunked
UseChunked(total) == total > large_file_threshold

\* a variant of OpenForWrite that keeps what the file holds (mode 'ab')
OpenForAppend(f) == IF f.exists THEN f ELSE File(<< >>)

\* open(path, 'wb'): the file is created, or truncated when it exists
OpenForWrite(f) == File(<< >>)

\* a variant of WriteTo that writes at the start of the file every time
WriteOver(f, data) == File(data)

\* file.write(data) at the end of what was written so far
WriteTo(f, data) == File(Cat(f.data, data))

\* what a write that fails may have put into the file before failing
PartialLens(n) == {0, n \div 2}

Event(i, status) == << i, status >>

\* the environment may still inject an I/O fault
MayFault == faults < MaxFaults

Return(res, why) ==
    /\ pc' = "idle"
    /\ result' = res
    /\ cause' = why

Begin(fn) ==
    /\ pc = "idle"
    /\ runs < MaxRuns
    /\ entry' = fn
    /\ runs' = runs + 1
    /\ result' = "none"
    /\ cause' = "none"
    /\ startArtifact' = artifact
    /\ startOutdir' = outdir
    /\ startFaults' = faults
    /\ prev' = [entry |-> entry, strategy |-> strategy, result |-> result,
                artifact |-> artifact]
    /\ layer_index' = 1
    /\ layer_contents' = << >>
    /\ errors_occurred' = FALSE
    /\ total_size' = 0
    /\ offset' = 0
    /\ events' = << >>
    /\ sized' = 0
    /\ UNCHANGED << inputs, outdir, artifact, faults >>

(***************************************************************************)
(* The caller                                                              *)
(***************************************************************************)
\* main() calls recombine_model on a manifest
CallRecombineModel ==
    /\ Begin("recombine_model")
    /\ pc' = "rm_metadata"
    /\ strategy' = "none"
    /\ chunk_size' = default_chunk_size

\* a caller forces the streamed strategy with a chunk size of its choice
CallChunked ==
    \E cs \in ChunkSizes :
        /\ MetadataError(manifest, configBlob) = "none"
        /\ get_model_size(Layers, blobs) \div cs <= MaxChunks
        /\ Begin("recombine_model_chunked")
        /\ pc' = "ch_mkdir"
        /\ strategy' = "chunked"
        /\ chunk_size' = cs

(***************************************************************************)
(* recombine_model: metadata, size estimate, strategy                      *)
(***************************************************************************)
\* a variant of ResolveMetadata that sizes the layers before it checks anything
ResolveMetadataLate ==
    /\ pc = "rm_metadata"
    /\ sized' = Len(Layers)
    /\ LET err == MetadataError(manifest, configBlob)
       IN  IF err # "none"
           THEN /\ pc' = "idle"
                /\ result' = "raised"
                /\ cause' = err
           ELSE /\ pc' = "rm_size"
                /\ UNCHANGED << result, cause >>
    /\ UNCHANGED << inputs, outdir, artifact, entry, strategy, chunk_size,
                    layer_index, layer_contents, errors_occurred, total_size,
                    offset, events, faults, history >>

ResolveMetadata ==
    /\ pc = "rm_metadata"
    /\ LET err == MetadataError(manifest, configBlob)
       IN  IF err # "none"
           THEN /\ pc' = "idle"
                /\ result' = "raised"
                /\ cause' = err
           ELSE /\ pc' = "rm_size"
                /\ UNCHANGED << result, cause >>
    /\ UNCHANGED << inputs, outdir, artifact, entry, locals, faults, history >>

EstimateSize ==
    /\ pc = "rm_size"
    /\ total_size' = get_model_size(Layers, blobs)
    /\ sized' = Len(Layers)
    /\ pc' = "rm_select"
    /\ UNCHANGED << inputs, outdir, artifact, entry, strategy, chunk_size,
                    layer_index, layer_contents, errors_occurred, offset, events,
                    result, cause, faults, history >>

SelectStrategy ==
    /\ pc = "rm_select"
    /\ IF UseChunked(total_size)
       THEN /\ strategy' = "chunked"
            /\ pc' = "ch_mkdir"
       ELSE /\ strategy' = "buffered"
            /\ pc' = "buf_read"
    /\ UNCHANGED << inputs, outdir, artifact, entry, chunk_size, layer_index,
                    layer_contents, errors_occurred, total_size, offset, events,
                    sized, result, cause, faults, history >>

(***************************************************************************)
(* recombine_model: the in-memory path                                     *)
(***************************************************************************)
\* a variant of BufferedReadLayer that leaves the loop at the first missing fragment
BufferedReadLayerBreak ==
    /\ pc = "buf_read"
    /\ layer_index <= Len(Layers)
    /\ LET blob == blobs[Layers[layer_index]]
       IN  IF ~blob.exists
           THEN /\ errors_occurred' = TRUE
                /\ events' = Append(events, Event(layer_index, "Failed"))
                /\ layer_index' = Len(Layers) + 1
                /\ UNCHANGED layer_contents
           ELSE /\ layer_contents' = Append(layer_contents, blob.data)
                /\ events' = events \o << Event(layer_index, "Reading"),
                                         Event(layer_index, "Success") >>
                /\ layer_index' = layer_index + 1
                /\ UNCHANGED errors_occurred
    /\ UNCHANGED << inputs, outdir, artifact, pc, entry, strategy, chunk_size,
                    total_size, offset, sized, result, cause, faults, history >>

\* one iteration of the layer loop
BufferedReadLayer ==
    /\ pc = "buf_read"
    /\ layer_index <= Len(Layers)
    /\ LET blob == blobs[Layers[layer_index]]
       IN  IF ~blob.exists
           THEN /\ errors_occurred' = TRUE
                /\ events' = Append(events, Event(layer_index, "Failed"))
                /\ UNCHANGED layer_contents
           ELSE /\ layer_contents' = Append(layer_contents, blob.data)
                /\ events' = events \o << Event(layer_index, "Reading"),
                                         Event(layer_index, "Success") >>
                /\ UNCHANGED errors_occurred
    /\ layer_index' = layer_index + 1
    /\ UNCHANGED << inputs, outdir, artifact, pc, entry, strategy, chunk_size,
                    total_size, offset, sized, result, cause, faults, history >>

\* one iteration of the layer loop in which open() or read() raises
BufferedReadFault ==
    /\ pc = "buf_read"
    /\ layer_index <= Len(Layers)
    /\ blobs[Layers[layer_index]].exists
    /\ MayFault
    /\ faults' = faults + 1
    /\ errors_occurred' = TRUE
    /\ events' = events \o << Event(layer_index, "Reading"),
                             Event(layer_index, "Failed") >>
    /\ layer_index' = layer_index + 1
    /\ UNCHANGED << inputs, outdir, artifact, pc, entry, strategy, chunk_size,
                    layer_contents, total_size, offset, sized, result, cause,
                    history >>

\* a variant of BufferedCheck that creates target_subdir before it looks at the errors
BufferedCheckMkdirFirst ==
    /\ pc = "buf_read"
    /\ layer_index > Len(Layers)
    /\ outdir' = TRUE
    /\ IF errors_occurred THEN Return("false", "fragment")
       ELSE IF layer_contents = << >> THEN Return("false", "empty")
       ELSE /\ pc' = "buf_mkdir"
            /\ UNCHANGED << result, cause >>
    /\ UNCHANGED << inputs, artifact, entry, locals, faults, history >>

\* after the loop: write only if every layer was read
BufferedCheck ==
    /\ pc = "buf_read"
    /\ layer_index > Len(Layers)
    /\ IF errors_occurred THEN Return("false", "fragment")
       ELSE IF layer_contents = << >> THEN Return("false", "empty")
       ELSE /\ pc' = "buf_mkdir"
            /\ UNCHANGED << result, cause >>
    /\ UNCHANGED << inputs, outdir, artifact, entry, locals, faults, history >>

BufferedMkdir ==
    /\ pc = "buf_mkdir"
    /\ outdir' = TRUE
    /\ pc' = "buf_open"
    /\ UNCHANGED << inputs, artifact, entry, locals, result, cause, faults, history >>

\* os.makedirs raises: caught by the except of the write block
BufferedMkdirFault ==
    /\ pc = "buf_mkdir"
    /\ ~outdir
    /\ MayFault
    /\ faults' = faults + 1
    /\ Return("false", "mkdir")
    /\ UNCHANGED << inputs, outdir, artifact, entry, locals, history >>

BufferedOpenOutput ==
    /\ pc = "buf_open"
    /\ artifact' = OpenForWrite(artifact)
    /\ pc' = "buf_write"
    /\ UNCHANGED << inputs, outdir, entry, locals, result, cause, faults, history >>

\* open(final_output_filepath, 'wb') raises
BufferedOpenFault ==
    /\ pc = "buf_open"
    /\ MayFault
    /\ faults' = faults + 1
    /\ Return("false", "open")
    /\ UNCHANGED << inputs, outdir, artifact, entry, locals, history >>

BufferedWrite ==
    /\ pc = "buf_write"
    /\ artifact' = WriteTo(artifact, join(layer_contents))
    /\ Return("true", "none")
    /\ UNCHANGED << inputs, outdir, entry, locals, faults, history >>

\* final_fobj.write raises after part of the content reached the file
BufferedWriteFault ==
    /\ pc = "buf_write"
    /\ MayFault
    /\ faults' = faults + 1
    /\ \E k \in PartialLens(Size(join(layer_contents))) :
          artifact' = WriteTo(artifact, Take(join(layer_contents), k))
    /\ Return("false", "write")
    /\ UNCHANGED << inputs, outdir, entry, locals, history >>

(***************************************************************************)
(* recombine_model_chunked                                                 *)
(***************************************************************************)
ChunkedMkdir ==
    /\ pc = "ch_mkdir"
    /\ outdir' = TRUE
    /\ pc' = "ch_open"
    /\ UNCHANGED << inputs, artifact, entry, locals, result, cause, faults, history >>

\* os.makedirs raises outside the try block: the exception leaves the function
ChunkedMkdirFault ==
    /\ pc = "ch_mkdir"
    /\ ~outdir
    /\ MayFault
    /\ faults' = faults + 1
    /\ Return("raised", "mkdir")
    /\ UNCHANGED << inputs, outdir, artifact, entry, locals, history >>

ChunkedOpenOutput ==
    /\ pc = "ch_open"
    /\ artifact' = OpenForWrite(artifact)
    /\ pc' = "ch_layer"
    /\ UNCHANGED << inputs, outdir, entry, locals, result, cause, faults, history >>

\* open(final_output_filepath, 'wb') raises: the outer except runs
ChunkedOpenFault ==
    /\ pc = "ch_open"
    /\ MayFault
    /\ faults' = faults + 1
    /\ pc' = "ch_cleanup"
    /\ UNCHANGED << inputs, outdir, artifact, entry, locals, result, cause, history >>

\* a variant of ChunkedNextLayer that goes on to the next layer after a missing one
ChunkedNextLayerContinue ==
    /\ pc = "ch_layer"
    /\ layer_index <= Len(Layers)
    /\ IF ~blobs[Layers[layer_index]].exists
       THEN /\ events' = Append(events, Event(layer_index, "NotFound"))
            /\ layer_index' = layer_index + 1
            /\ UNCHANGED << offset, pc, result, cause >>
       ELSE /\ events' = Append(events, Event(layer_index, "Reading"))
            /\ offset' = 0
            /\ pc' = "ch_copy"
            /\ UNCHANGED << layer_index, result, cause >>
    /\ UNCHANGED << inputs, outdir, artifact, entry, strategy, chunk_size,
                    layer_contents, errors_occurred, total_size, sized, faults,
                    history >>

\* the head of one iteration of the layer loop: resolve the fragment, open it
ChunkedNextLayer ==
    /\ pc = "ch_layer"
    /\ layer_index <= Len(Layers)
    /\ IF ~blobs[Layers[layer_index]].exists
       THEN /\ events' = Append(events, Event(layer_index, "NotFound"))
            /\ Return("false", "missing")
            /\ UNCHANGED offset
       ELSE /\ events' = Append(events, Event(layer_index, "Reading"))
            /\ offset' = 0
            /\ pc' = "ch_copy"
            /\ UNCHANGED << result, cause >>
    /\ UNCHANGED << inputs, outdir, artifact, entry, strategy, chunk_size,
                    layer_index, layer_contents, errors_occurred, total_size,
                    sized, faults, history >>

\* one iteration of the chunk loop; an empty chunk ends the fragment
ChunkedCopyChunk ==
    /\ pc = "ch_copy"
    /\ LET chunk == ReadAt(blobs[Layers[layer_index]].data, offset, chunk_size)
       IN  IF chunk = << >>
           THEN /\ events' = Append(events, Event(layer_index, "Success"))
                /\ layer_index' = layer_index + 1
                /\ pc' = "ch_layer"
                /\ UNCHANGED << artifact, offset >>
           ELSE /\ artifact' = WriteTo(artifact, chunk)
                /\ offset' = offset + Size(chunk)
                /\ UNCHANGED << events, layer_index, pc >>
    /\ UNCHANGED << inputs, outdir, entry, strategy, chunk_size, layer_contents,
                    errors_occurred, total_size, sized, result, cause, faults,
                    history >>

\* the chunk within the open fragment that is copied next
ChunkNumber == offset \div chunk_size + 1

\* layer_fobj.read raises: the inner except returns False
ChunkedReadFault ==
    /\ pc = "ch_copy"
    /\ MayFault
    /\ ChunkNumber <= MaxFaultChunk
    /\ faults' = faults + 1
    /\ events' = Append(events, Event(layer_index, "Failed"))
    /\ Return("false", "read")
    /\ UNCHANGED << inputs, outdir, artifact, entry, strategy, chunk_size,
                    layer_index, layer_contents, errors_occurred, total_size,
                    offset, sized, history >>

\* final_fobj.write raises after part of the chunk reached the file
ChunkedWriteFault ==
    /\ pc = "ch_copy"
    /\ MayFault
    /\ ChunkNumber <= MaxFaultChunk
    /\ LET chunk == ReadAt(blobs[Layers[layer_index]].data, offset, chunk_size)
       IN  /\ chunk # << >>
           /\ \E k \in PartialLens(Size(chunk)) :
                 artifact' = WriteTo(artifact, Take(chunk, k))
    /\ faults' = faults + 1
    /\ events' = Append(events, Event(layer_index, "Failed"))
    /\ Return("false", "write")
    /\ UNCHANGED << inputs, outdir, entry, strategy, chunk_size, layer_index,
                    layer_contents, errors_occurred, total_size, offset, sized,
                    history >>

\* after the loop: the output is closed and its size reported
ChunkedFinish ==
    /\ pc = "ch_layer"
    /\ layer_index > Len(Layers)
    /\ Return("true", "none")
    /\ UNCHANGED << inputs, outdir, artifact, entry, locals, faults, history >>

\* the outer except: remove the output if it exists, which may itself fail
ChunkedCleanup ==
    /\ pc = "ch_cleanup"
    /\ IF artifact.exists
       THEN \E removed \in BOOLEAN :
               artifact' = IF removed THEN Missing ELSE artifact
       ELSE UNCHANGED artifact
    /\ Return("false", "open")
    /\ UNCHANGED << inputs, outdir, entry, locals, faults, history >>

Next ==
    \/ CallRecombineModel
    \/ CallChunked
    \/ ResolveMetadata
    \/ EstimateSize
    \/ SelectStrategy
    \/ BufferedReadLayer
    \/ BufferedReadFault
    \/ BufferedCheck
    \/ BufferedMkdir
    \/ BufferedMkdirFault
    \/ BufferedOpenOutput
    \/ BufferedOpenFault
    \/ BufferedWrite
    \/ BufferedWriteFault
    \/ ChunkedMkdir
    \/ ChunkedMkdirFault
    \/ ChunkedOpenOutput
    \/ ChunkedOpenFault
    \/ ChunkedNextLayer
    \/ ChunkedCopyChunk
    \/ ChunkedReadFault
    \/ ChunkedWriteFault
    \/ ChunkedFinish
    \/ ChunkedCleanup

Spec == Init /\ [][Next]_vars

TypeOK ==
    /\ pc \in {"idle", "rm_metadata", "rm_size", "rm_select", "buf_read",
               "buf_mkdir", "buf_open", "buf_write", "ch_mkdir", "ch_open",
               "ch_layer", "ch_copy", "ch_cleanup"}
    /\ result \in {"none", "true", "false", "raised"}
    /\ runs \in 0..MaxRuns
    /\ faults \in 0..MaxFaults

(***************************************************************************)
(* Notions the properties use                                              *)
(***************************************************************************)
\* a call has returned (or raised) and no other has begun
Done == pc = "idle" /\ runs > 0

Present(i) == blobs[Layers[i]].exists

AllPresent == \A i \in 1..Len(Layers) : Present(i)

SomeMissing == \E i \in 1..Len(Layers) : ~Present(i)

\* position of the first layer whose fragment is missing
FirstMissing ==
    CHOOSE i \in 1..Len(Layers) : ~Present(i) /\ \A j \in 1..(i - 1) : Present(j)

\* no I/O fault was injected into the running call
NoFaultThisRun == faults = startFaults

MetadataErrors == {"MissingConfig", "MissingDigest", "ConfigBlobUnreadable",
                   "InvalidQuantizationType", "MissingLayers"}

\* bytes of the layers before layer i
PrefixSize(i) == get_model_size(SubSeq(Layers, 1, i - 1), blobs)

\* data is the fragments of layers 1..n one after the other, nothing else
IsConcatOf(data, n) ==
    /\ Size(data) = PrefixSize(n + 1)
    /\ \A i \in 1..n :
          ReadAt(data, PrefixSize(i), Size(blobs[Layers[i]].data))
             = blobs[Layers[i]].data

\* the status events of layer i, in the order they were written
EventsOf(i) == SelectSeq(events, LAMBDA e : e[1] = i)

(***************************************************************************)
(* C1 (as stated): in the streamed strategy, whenever a fragment of the    *)
(* layer list is missing, the call reports failure and the target artifact *)
(* path does not exist after the call has returned.                        *)
(***************************************************************************)
C1_MissingFragmentLeavesNoArtifact ==
    (Done /\ strategy = "chunked" /\ SomeMissing /\ NoFaultThisRun)
        => (result = "false" /\ ~artifact.exists)

C3_StrategiesConcatenateInOrder ==
    (Done /\ strategy \in {"buffered", "chunked"} /\ Layers # << >>
          /\ AllPresent /\ NoFaultThisRun)
        => /\ result = "true"
           /\ artifact.exists
           /\ IsConcatOf(artifact.data, Len(Layers))
           /\ (prev.result = "true" /\ prev.strategy # "none")
                 => artifact = prev.artifact

C3_Witness ==
    /\ Done
    /\ runs = 2
    /\ prev.strategy = "buffered"
    /\ prev.result = "true"
    /\ strategy = "chunked"
    /\ chunk_size = 1
    /\ result = "true"
    /\ Len(Layers) = 3
    /\ Layers[1] # Layers[2]
    /\ Size(artifact.data) >= 4

(***************************************************************************)
(* C4: in the buffered strategy with a missing fragment, the call reports  *)
(* failure, the artifact path is never written, and every layer of the     *)
(* list gets its own success or failure event, the layers after the first  *)
(* failing one included.                                                   *)
(***************************************************************************)
C4_BufferedAttemptsEveryLayer ==
    (strategy = "buffered" /\ SomeMissing)
        => /\ artifact = startArtifact
           /\ Done =>
                /\ result = "false"
                /\ \A i \in 1..Len(Layers) :
                      LET last == EventsOf(i)[Len(EventsOf(i))]
                      IN  /\ EventsOf(i) # << >>
                          /\ last[2] \in {"Success", "Failed"}
                          /\ ~Present(i) => EventsOf(i) = << Event(i, "Failed") >>

C4_Witness ==
    /\ Done
    /\ strategy = "buffered"
    /\ Len(Layers) = 3
    /\ ~Present(1)
    /\ Present(3)
    /\ result = "false"
    /\ EventsOf(3) = << Event(3, "Reading"), Event(3, "Success") >>

(***************************************************************************)
(* C5 (as stated): in the streamed strategy, when a read of a fragment or  *)
(* a write to the artifact fails part-way, the call reports failure and    *)
(* the partially written artifact is deleted.                              *)
(***************************************************************************)
C5_MidFragmentFailureDeletesArtifact ==
    (Done /\ strategy = "chunked" /\ cause \in {"read", "write"})
        => (result = "false" /\ ~artifact.exists)

(***************************************************************************)
(* C6 (as stated): a buffered conversion that returns failure, a failure   *)
(* while creating or writing the output file included, has not created or  *)
(* changed the artifact: the path holds what it held before the call.      *)
(***************************************************************************)
C6_BufferedFailureLeavesNoPartialArtifact ==
    (Done /\ strategy = "buffered" /\ result = "false")
        => artifact = startArtifact

(***************************************************************************)
(* C7: a metadata failure of recombine_model is raised before any layer    *)
(* fragment is sized or opened and before the output directory or the      *)
(* artifact is touched; and a call on defective metadata ends in such a    *)
(* failure.                                                                *)
(***************************************************************************)
C7_MetadataFailsBeforeFragmentIO ==
    /\ (result = "raised" /\ cause \in MetadataErrors)
          => /\ sized = 0
             /\ events = << >>
             /\ layer_contents = << >>
             /\ strategy = "none"
             /\ artifact = startArtifact
             /\ outdir = startOutdir
    /\ (Done /\ entry = "recombine_model"
             /\ MetadataError(manifest, configBlob) # "none")
          => (result = "raised" /\ cause = MetadataError(manifest, configBlob))

C7_Witness ==
    /\ Done
    /\ result = "raised"
    /\ cause = "InvalidQuantizationType"
    /\ configBlob.file_type.type = "list"
    /\ Len(Layers) = 2
    /\ AllPresent

(***************************************************************************)
(* C8: running recombine_model twice in a row on the unchanged manifest    *)
(* and fragments, all present, succeeds both times and the second run      *)
(* leaves the artifact the first run left (it overwrites, it does not      *)
(* append).                                                                *)
(***************************************************************************)
C8_SecondRunLeavesSameArtifact ==
    (Done /\ runs >= 2 /\ entry = "recombine_model"
          /\ prev.entry = "recombine_model" /\ faults = 0 /\ AllPresent
          /\ MetadataError(manifest, configBlob) = "none")
        => /\ result = "true"
           /\ prev.result = "true"
           /\ artifact = prev.artifact
           /\ strategy = prev.strategy

C8_Witness ==
    /\ Done
    /\ runs = 2
    /\ entry = "recombine_model"
    /\ prev.entry = "recombine_model"
    /\ prev.result = "true"
    /\ result = "true"
    /\ strategy = "chunked"
    /\ artifact = prev.artifact
    /\ Size(artifact.data) > large_file_threshold

(***************************************************************************)
(* C9: the streamed strategy takes the layers in manifest order and stops  *)
(* at the first missing fragment: no layer after it is resolved, opened or *)
(* read, and the output holds the fragments before it and nothing more.    *)
(***************************************************************************)
C9_StreamedStopsAtFirstMissing ==
    (strategy = "chunked" /\ pc \in {"idle", "ch_layer", "ch_copy"})
        => /\ \A k \in 1..Len(events) : events[k][1] <= layer_index
           /\ \A k \in 1..(Len(events) - 1) : events[k][1] <= events[k + 1][1]
           /\ SomeMissing => layer_index <= FirstMissing
           /\ (Done /\ SomeMissing /\ NoFaultThisRun)
                 => /\ result = "false"
                    /\ layer_index = FirstMissing
                    /\ EventsOf(FirstMissing) = << Event(FirstMissing, "NotFound") >>
                    /\ artifact.exists
                    /\ IsConcatOf(artifact.data, FirstMissing - 1)

C9_Witness ==
    /\ Done
    /\ strategy = "chunked"
    /\ cause = "missing"
    /\ Len(Layers) = 3
    /\ FirstMissing = 2
    /\ Present(3)
    /\ Size(artifact.data) > 0

(***************************************************************************)
(* C10: a buffered conversion that fails on a fragment read leaves the     *)
(* output location as it was: the output sub-directory is not created and  *)
(* an artifact of an earlier successful conversion keeps its content.      *)
(***************************************************************************)
C10_BufferedReadFailureChangesNothing ==
    (Done /\ strategy = "buffered" /\ cause = "fragment")
        => /\ result = "false"
           /\ outdir = startOutdir
           /\ artifact = startArtifact
           /\ prev.result = "true" => artifact = prev.artifact

C10_Witness ==
    /\ Done
    /\ strategy = "buffered"
    /\ cause = "fragment"
    /\ runs = 2
    /\ prev.result = "true"
    /\ artifact.exists
    /\ Size(artifact.data) > 0
    /\ artifact = prev.artifact
====
